---- MODULE Spec2Model ----
(***************************************************************************)
(* SpeakTeX: the recording session controller (AudioRecorder component),   *)
(* its staged upload / transcription workflow (sendAudioToBackend) and the  *)
(* parts of the Home component they act on.                                 *)
(*                                                                          *)
(* Platform behaviour the model relies on:                                  *)
(*  - a MediaRecorder dispatches the events queued by requestData() and    *)
(*    stop() in the order they were queued (one FIFO queue per recorder);   *)
(*  - the events queued for a recorder are dispatched before the next      *)
(*    1000 ms interval tick;                                                *)
(*  - interval timers fire once per 1000 ms each, hence in the cyclic      *)
(*    order in which they were created;                                     *)
(*  - clicks, getUserMedia settlements and fetch settlements interleave    *)
(*    freely with everything else.                                          *)
(* recordingTime (display only) is not modelled. handleGenerateLatex, the  *)
(* only writer of isProcessing, is not part of Next: while it runs the     *)
(* record button is disabled, which removes clicks and adds none. It is    *)
(* followed by the specification SpecConv of its own.                      *)
(***************************************************************************)
EXTENDS Integers, Sequences, FiniteSets, TLC

\* ---------------------------------------------------------------- bounds
\* clicks on the record button the model follows
MaxClicks == 3
\* non-empty blobs one recorder produces; the blobs it gathers later have size 0
MaxChunks == 1

\* status polls the backend makes for a job before it gives up
WaitCeiling == 3
\* phrases in a spoken input given to the phrase normalizer
MaxPhrases == 2

\* ------------------------------------------------------ program constants
\* `if (seconds >= 30) stopRecording()`
AutoStopCeiling == 30

\* One session per startRecording call; every second click at most starts one.
MaxSessions == (MaxClicks + 1) \div 2

Sessions == 1..MaxSessions

\* null of a ref
NoRef == 0

VARIABLES
    isRecording,        \* Home state, prop of AudioRecorder
    isProcessing,       \* Home state, prop of AudioRecorder
    transcript,         \* Home state: session whose result is shown, 0 = ''
    mediaRecorderRef,   \* mediaRecorderRef.current: a session's recorder, or NoRef
    timerRef,           \* timerRef.current: a session's interval timer, or NoRef
    audioChunksRef,     \* audioChunksRef.current: sequence of chunks <<session, n>>
    clicks,             \* clicks on the record button so far
    nextId,             \* startRecording calls made so far
    acq,                \* per session: the getUserMedia promise
    rec,                \* per session: MediaRecorder.state ("none" before construction)
    tracks,             \* per session: the tracks of the acquired stream
    seconds,            \* per session: `seconds` of the interval closure
    timerQueue,         \* live interval timers, next to fire first
    evq,                \* per session: events queued on the recorder, oldest first
    produced,           \* per session: non-empty chunks produced so far
    stoppedBy,          \* per session: who stopped the recorder
    lastStop,           \* branch the latest stopRecording call took
    handoffs,           \* per session: handleStop -> sendAudioToBackend calls
    blob,               \* per session: the audioBlob handed to sendAudioToBackend
    task,               \* per session: where its sendAudioToBackend call stands
    taskErr,            \* per session: message of the Error thrown by the call
    reqLog,             \* per session: requests issued by the call, in order
    putStatus,          \* per session: outcome of the PUT to the upload location
    delivered,          \* per session: onRecordingComplete calls
    deliveredText,      \* per session: transcript_text onRecordingComplete was given
    unmounted,          \* the AudioRecorder component was removed from the page
    jobStatus,          \* per session: the backend's transcription job
    polls,              \* per session: status polls the backend made for the job
    text,               \* the argument of a convertToLatex call
    latexText,          \* what the call returned
    normState,          \* the call: "pending", "returned" or "threw"
    apiKey,             \* whether VITE_GEMINI_API_KEY is set
    localTranscript,    \* TranscriptDisplay state: the text of the textarea
    latex,              \* Home state: the LaTeX shown
    error,              \* Home state: the message shown, "" for none
    convCalls,          \* the handleGenerateLatex calls made, oldest first
    requests,           \* requests sent to the generative service so far
    errorTimers,        \* pending `setTimeout(() => setError(''), 8000)` timers
    history,            \* HistoryPanel state: the timestamps of the records listed
    deletions           \* the handleDeleteItem calls made, oldest first

\* what no handler of a mounted recorder component writes
normVars == <<text, latexText, normState>>

convVars == <<apiKey, localTranscript, latex, error, convCalls, requests, errorTimers>>

histVars == <<history, deletions>>

otherVars == <<unmounted, jobStatus, polls, normVars, convVars, histVars>>

vars == <<isRecording, isProcessing, transcript, mediaRecorderRef, timerRef,
          audioChunksRef, clicks, nextId, acq, rec, tracks, seconds, timerQueue, evq,
          produced, stoppedBy, lastStop, handoffs, blob, task, taskErr, reqLog,
          putStatus, delivered, deliveredText, otherVars>>

recorderVars == <<mediaRecorderRef, timerRef, audioChunksRef, clicks, nextId, acq, rec,
                  tracks, seconds, timerQueue, evq, produced, stoppedBy, lastStop>>

taskVars == <<handoffs, blob, task, taskErr, reqLog, putStatus, delivered,
              deliveredText>>

\* ---------------------------------------------------------------- helpers
Min(a, b) == IF a <= b THEN a ELSE b

Remove(q, x) == SelectSeq(q, LAMBDA y : y # x)

IsPrefix(p, q) == Len(p) <= Len(q) /\ SubSeq(q, 1, Len(p)) = p

\* The events of a recorder.
StartEvent == <<"start", 0>>
StopEvent == <<"stop", 0>>
DataEvent(n) == <<"dataavailable", n>>

\* The blob a recorder gathers since the last one: chunk number n > 0, or a
\* blob of size 0 (n = 0) when nothing was captured. The blob requested right
\* after start() and the one flushed by stop() may be empty (nonEmpty is
\* chosen freely); the one an interval tick requests holds the audio of the
\* second that passed (nonEmpty is TRUE).
GatherData(prod, nonEmpty) == IF nonEmpty /\ prod < MaxChunks THEN prod + 1 ELSE 0

\* State after construction of Home and AudioRecorder.
Init ==
    /\ isRecording = FALSE
    /\ isProcessing = FALSE
    /\ transcript = 0
    /\ mediaRecorderRef = NoRef
    /\ timerRef = NoRef
    /\ audioChunksRef = <<>>
    /\ clicks = 0
    /\ nextId = 0
    /\ acq = [s \in Sessions |-> "none"]
    /\ rec = [s \in Sessions |-> "none"]
    /\ tracks = [s \in Sessions |-> "none"]
    /\ seconds = [s \in Sessions |-> 0]
    /\ timerQueue = <<>>
    /\ evq = [s \in Sessions |-> <<>>]
    /\ produced = [s \in Sessions |-> 0]
    /\ stoppedBy = [s \in Sessions |-> "none"]
    /\ lastStop = "none"
    /\ handoffs = [s \in Sessions |-> 0]
    /\ blob = [s \in Sessions |-> <<>>]
    /\ task = [s \in Sessions |-> "none"]
    /\ taskErr = [s \in Sessions |-> "none"]
    /\ reqLog = [s \in Sessions |-> <<>>]
    /\ putStatus = [s \in Sessions |-> "none"]
    /\ delivered = [s \in Sessions |-> 0]
    /\ deliveredText = [s \in Sessions |-> "none"]
    /\ unmounted = FALSE
    /\ jobStatus = [s \in Sessions |-> "none"]
    /\ polls = [s \in Sessions |-> 0]
    /\ text = ""
    /\ latexText = ""
    /\ normState = "pending"
    /\ apiKey = TRUE
    /\ localTranscript = ""
    /\ latex = ""
    /\ error = ""
    /\ convCalls = <<>>
    /\ requests = 0
    /\ errorTimers = 0
    /\ history = <<>>
    /\ deletions = <<>>

\* ------------------------------------------------- AudioRecorder/index.jsx
\* MediaRecorder.requestData() on session r's recorder: queues a dataavailable
\* event carrying what was gathered since the last blob.
RequestData(r, q, prod, nonEmpty) ==
    LET n == GatherData(prod[r], nonEmpty)
    IN  [evq      |-> [q EXCEPT ![r] = Append(@, DataEvent(n))],
         produced |-> IF n > 0 THEN [prod EXCEPT ![r] = n] ELSE prod]

\* stopRecording without the `state !== 'inactive'` test: stop() and the track
\* release run on any recorder the ref holds.
StopRecordingNoGuard(by, q, prod, tq, nonEmpty) ==
    LET r   == mediaRecorderRef
        hit == r # NoRef
        n   == IF hit THEN GatherData(prod[r], nonEmpty) ELSE 0
    IN  [rec        |-> IF hit THEN [rec EXCEPT ![r] = "inactive"] ELSE rec,
         tracks     |-> IF hit THEN [tracks EXCEPT ![r] = "ended"] ELSE tracks,
         evq        |-> IF hit
                        THEN [q EXCEPT ![r] = @ \o <<DataEvent(n), StopEvent>>]
                        ELSE q,
         produced   |-> IF n > 0 THEN [prod EXCEPT ![r] = n] ELSE prod,
         stoppedBy  |-> IF hit THEN [stoppedBy EXCEPT ![r] = by] ELSE stoppedBy,
         timerQueue |-> IF timerRef # NoRef THEN Remove(tq, timerRef) ELSE tq,
         timerRef   |-> NoRef,
         lastStop   |-> IF hit /\ rec[r] # "inactive" THEN "stopped"
                        ELSE IF r = NoRef THEN "null" ELSE "inactive"]

\* stopRecording that leaves the release of the stream to the end of the
\* hand-off: the tracks are not stopped in stopRecording itself.
StopRecordingKeepsTracks(by, q, prod, tq, nonEmpty) ==
    LET r   == mediaRecorderRef
        hit == r # NoRef /\ rec[r] # "inactive"
        n   == IF hit THEN GatherData(prod[r], nonEmpty) ELSE 0
    IN  [rec        |-> IF hit THEN [rec EXCEPT ![r] = "inactive"] ELSE rec,
         tracks     |-> tracks,
         evq        |-> IF hit
                        THEN [q EXCEPT ![r] = @ \o <<DataEvent(n), StopEvent>>]
                        ELSE q,
         produced   |-> IF n > 0 THEN [prod EXCEPT ![r] = n] ELSE prod,
         stoppedBy  |-> IF hit THEN [stoppedBy EXCEPT ![r] = by] ELSE stoppedBy,
         timerQueue |-> IF timerRef # NoRef THEN Remove(tq, timerRef) ELSE tq,
         timerRef   |-> NoRef,
         lastStop   |-> IF hit THEN "stopped"
                        ELSE IF r = NoRef THEN "null" ELSE "inactive"]

\* stopRecording that, besides stop(), runs the hand-off itself whenever the
\* ref holds a recorder: a second stop on a stopped recorder hands off again.
StopRecordingHandsOffAgain(by, q, prod, tq, nonEmpty) ==
    LET r   == mediaRecorderRef
        hit == r # NoRef /\ rec[r] # "inactive"
        n   == IF hit THEN GatherData(prod[r], nonEmpty) ELSE 0
    IN  [rec        |-> IF hit THEN [rec EXCEPT ![r] = "inactive"] ELSE rec,
         tracks     |-> IF hit THEN [tracks EXCEPT ![r] = "ended"] ELSE tracks,
         evq        |-> IF hit
                        THEN [q EXCEPT ![r] = @ \o <<DataEvent(n), StopEvent>>]
                        ELSE IF r # NoRef
                        THEN [q EXCEPT ![r] = Append(@, StopEvent)]
                        ELSE q,
         produced   |-> IF n > 0 THEN [prod EXCEPT ![r] = n] ELSE prod,
         stoppedBy  |-> IF hit THEN [stoppedBy EXCEPT ![r] = by] ELSE stoppedBy,
         timerQueue |-> IF timerRef # NoRef THEN Remove(tq, timerRef) ELSE tq,
         timerRef   |-> NoRef,
         lastStop   |-> IF hit THEN "stopped"
                        ELSE IF r = NoRef THEN "null" ELSE "inactive"]

\* stopRecording(), called from handleClick (by = "click") or from an interval
\* callback (by = "timer"), on the event queues q, chunk counters prod and
\* timer queue tq reached so far in the calling handler. MediaRecorder.stop()
\* sets the state to inactive and queues a final dataavailable, then stop.
StopRecording(by, q, prod, tq, nonEmpty) ==
    LET r   == mediaRecorderRef
        hit == r # NoRef /\ rec[r] # "inactive"
        n   == IF hit THEN GatherData(prod[r], nonEmpty) ELSE 0
    IN  [rec        |-> IF hit THEN [rec EXCEPT ![r] = "inactive"] ELSE rec,
         tracks     |-> IF hit THEN [tracks EXCEPT ![r] = "ended"] ELSE tracks,
         evq        |-> IF hit
                        THEN [q EXCEPT ![r] = @ \o <<DataEvent(n), StopEvent>>]
                        ELSE q,
         produced   |-> IF n > 0 THEN [prod EXCEPT ![r] = n] ELSE prod,
         stoppedBy  |-> IF hit THEN [stoppedBy EXCEPT ![r] = by] ELSE stoppedBy,
         timerQueue |-> IF timerRef # NoRef THEN Remove(tq, timerRef) ELSE tq,
         timerRef   |-> NoRef,
         lastStop   |-> IF hit THEN "stopped"
                        ELSE IF r = NoRef THEN "null" ELSE "inactive"]

\* handleClick, isRecording true: setIsRecording(false); stopRecording()
HandleClickStop ==
    /\ clicks < MaxClicks
    /\ ~isProcessing
    /\ isRecording
    /\ clicks' = clicks + 1
    /\ \E nonEmpty \in BOOLEAN :
         LET st == StopRecording("click", evq, produced, timerQueue, nonEmpty)
         IN  /\ rec' = st.rec
             /\ tracks' = st.tracks
             /\ evq' = st.evq
             /\ produced' = st.produced
             /\ stoppedBy' = st.stoppedBy
             /\ timerQueue' = st.timerQueue
             /\ timerRef' = st.timerRef
             /\ lastStop' = st.lastStop
    /\ isRecording' = FALSE
    /\ UNCHANGED <<isProcessing, transcript, mediaRecorderRef, audioChunksRef,
                   nextId, acq, seconds>>
    /\ UNCHANGED taskVars
    /\ UNCHANGED otherVars

\* handleClick, isRecording false: setIsRecording(true); startRecording() up to
\* its await of getUserMedia
HandleClickStart ==
    /\ clicks < MaxClicks
    /\ ~isProcessing
    /\ ~isRecording
    /\ nextId < MaxSessions
    /\ clicks' = clicks + 1
    /\ isRecording' = TRUE
    /\ audioChunksRef' = <<>>
    /\ nextId' = nextId + 1
    /\ acq' = [acq EXCEPT ![nextId + 1] = "pending"]
    /\ UNCHANGED <<isProcessing, transcript, mediaRecorderRef, timerRef, rec,
                   tracks, seconds, timerQueue, evq, produced, stoppedBy, lastStop>>
    /\ UNCHANGED taskVars
    /\ UNCHANGED otherVars

\* startRecording after getUserMedia resolved: new MediaRecorder(stream), the
\* listeners, mediaRecorderRef, start(), the interval timer
GetUserMediaGranted(s) ==
    /\ acq[s] = "pending"
    /\ acq' = [acq EXCEPT ![s] = "granted"]
    /\ tracks' = [tracks EXCEPT ![s] = "live"]
    /\ rec' = [rec EXCEPT ![s] = "recording"]
    /\ evq' = [evq EXCEPT ![s] = <<StartEvent>>]
    /\ mediaRecorderRef' = s
    /\ seconds' = [seconds EXCEPT ![s] = 0]
    /\ timerRef' = s
    /\ timerQueue' = Append(timerQueue, s)
    /\ UNCHANGED <<isRecording, isProcessing, transcript, audioChunksRef, clicks,
                   nextId, produced, stoppedBy, lastStop>>
    /\ UNCHANGED taskVars
    /\ UNCHANGED otherVars

\* startRecording after getUserMedia rejected: catch, setIsRecording(false)
GetUserMediaDenied(s) ==
    /\ acq[s] = "pending"
    /\ acq' = [acq EXCEPT ![s] = "denied"]
    /\ isRecording' = FALSE
    /\ UNCHANGED <<isProcessing, transcript, mediaRecorderRef, timerRef,
                   audioChunksRef, clicks, nextId, rec, tracks, seconds, timerQueue,
                   evq, produced, stoppedBy, lastStop>>
    /\ UNCHANGED taskVars
    /\ UNCHANGED otherVars

\* One run of the setInterval callback of session t's startRecording.
TimerTick(t) ==
    /\ timerQueue # <<>>
    /\ t = Head(timerQueue)
    /\ \A s \in Sessions : evq[s] = <<>>
    /\ LET sec == Min(seconds[t] + 1, AutoStopCeiling)
           r   == mediaRecorderRef
           tq  == Append(Tail(timerQueue), t)
       IN  /\ seconds' = [seconds EXCEPT ![t] = sec]
           /\ \E nonEmpty \in BOOLEAN :
                LET rd == IF r # NoRef /\ rec[r] = "recording"
                          THEN RequestData(r, evq, produced, TRUE)
                          ELSE [evq |-> evq, produced |-> produced]
                    st == StopRecording("timer", rd.evq, rd.produced, tq, nonEmpty)
                IN  IF sec >= AutoStopCeiling
                    THEN /\ rec' = st.rec
                         /\ tracks' = st.tracks
                         /\ evq' = st.evq
                         /\ produced' = st.produced
                         /\ stoppedBy' = st.stoppedBy
                         /\ timerQueue' = st.timerQueue
                         /\ timerRef' = st.timerRef
                         /\ lastStop' = st.lastStop
                    ELSE /\ evq' = rd.evq
                         /\ produced' = rd.produced
                         /\ timerQueue' = tq
                         /\ UNCHANGED <<rec, tracks, stoppedBy, timerRef, lastStop>>
    /\ UNCHANGED <<isRecording, isProcessing, transcript, mediaRecorderRef,
                   audioChunksRef, clicks, nextId, acq>>
    /\ UNCHANGED taskVars
    /\ UNCHANGED otherVars

\* ------------------------------------------------------ sendAudioToBackend
\* What the awaited fetch of a step can do: reject, answer with a non-2xx
\* status, answer 2xx with success false in the body, or succeed. A successful
\* answer to the transcription request carries a transcript_text, or none
\* ("okNoText": nothing was recognised in the audio).
Outcomes(pc) ==
    IF pc = "putAudio" THEN {"rejected", "notOk", "ok"}
    ELSE IF pc = "getUploadUrl" THEN {"rejected", "notOk", "noSuccess", "ok"}
    ELSE {"rejected", "notOk", "noSuccess", "ok", "okNoText"}

AllOutcomes == {"rejected", "notOk", "noSuccess", "ok", "okNoText"}

\* sendAudioToBackend without the `if (!s3Response.ok) throw`: a refused PUT
\* is taken for a stored object and the job is started.
SendStepNoS3Check(pc, o) ==
    IF o = "rejected" THEN [pc |-> "failed", err |-> "Failed to fetch", req |-> "none"]
    ELSE IF pc = "getUploadUrl" THEN
        IF o = "notOk"
        THEN [pc |-> "failed", err |-> "Failed to get upload URL", req |-> "none"]
        ELSE IF o = "noSuccess"
        THEN [pc |-> "failed", err |-> "Failed to generate upload URL", req |-> "none"]
        ELSE [pc |-> "putAudio", err |-> "none", req |-> "put-audio"]
    ELSE IF pc = "putAudio" THEN
        [pc |-> "startJob", err |-> "none", req |-> "transcribe"]
    ELSE
        IF o \in {"notOk", "noSuccess"}
        THEN [pc |-> "failed", err |-> "Transcription failed", req |-> "none"]
        ELSE IF o = "timedOut"
        THEN [pc |-> "failed", err |-> "TranscriptionTimeout", req |-> "none"]
        ELSE [pc |-> "done", err |-> "none", req |-> "none"]

\* sendAudioToBackend without the `if (!transcribeData.success) throw`: every
\* 2xx answer of the transcription request is taken for a result.
SendStepNoSuccessCheck(pc, o) ==
    IF o = "rejected" THEN [pc |-> "failed", err |-> "Failed to fetch", req |-> "none"]
    ELSE IF pc = "getUploadUrl" THEN
        IF o = "notOk"
        THEN [pc |-> "failed", err |-> "Failed to get upload URL", req |-> "none"]
        ELSE IF o = "noSuccess"
        THEN [pc |-> "failed", err |-> "Failed to generate upload URL", req |-> "none"]
        ELSE [pc |-> "putAudio", err |-> "none", req |-> "put-audio"]
    ELSE IF pc = "putAudio" THEN
        IF o = "notOk"
        THEN [pc |-> "failed", err |-> "S3 upload failed", req |-> "none"]
        ELSE [pc |-> "startJob", err |-> "none", req |-> "transcribe"]
    ELSE
        IF o = "notOk"
        THEN [pc |-> "failed", err |-> "Transcription failed", req |-> "none"]
        ELSE [pc |-> "done", err |-> "none", req |-> "none"]

\* sendAudioToBackend that asks for a new upload location when the first
\* request is answered with a non-2xx status, instead of throwing.
SendStepRetries(pc, o) ==
    IF o = "rejected" THEN [pc |-> "failed", err |-> "Failed to fetch", req |-> "none"]
    ELSE IF pc = "getUploadUrl" THEN
        IF o = "notOk"
        THEN [pc |-> "getUploadUrl", err |-> "none", req |-> "get-upload-url"]
        ELSE IF o = "noSuccess"
        THEN [pc |-> "failed", err |-> "Failed to generate upload URL", req |-> "none"]
        ELSE [pc |-> "putAudio", err |-> "none", req |-> "put-audio"]
    ELSE IF pc = "putAudio" THEN
        IF o = "notOk"
        THEN [pc |-> "failed", err |-> "S3 upload failed", req |-> "none"]
        ELSE [pc |-> "startJob", err |-> "none", req |-> "transcribe"]
    ELSE
        IF o \in {"notOk", "noSuccess"}
        THEN [pc |-> "failed", err |-> "Transcription failed", req |-> "none"]
        ELSE IF o = "timedOut"
        THEN [pc |-> "failed", err |-> "TranscriptionTimeout", req |-> "none"]
        ELSE [pc |-> "done", err |-> "none", req |-> "none"]

\* The code after the awaited fetch of step pc settled with outcome o: the next
\* position, the message of the Error thrown, the request issued next.
\* "timedOut" is an answer of the transcription request with success false
\* whose error text says that the job did not finish in time; the Error thrown
\* carries that text (`transcribeData.error || 'Transcription failed'`).
SendStep(pc, o) ==
    IF o = "rejected" THEN [pc |-> "failed", err |-> "Failed to fetch", req |-> "none"]
    ELSE IF pc = "getUploadUrl" THEN
        IF o = "notOk"
        THEN [pc |-> "failed", err |-> "Failed to get upload URL", req |-> "none"]
        ELSE IF o = "noSuccess"
        THEN [pc |-> "failed", err |-> "Failed to generate upload URL", req |-> "none"]
        ELSE [pc |-> "putAudio", err |-> "none", req |-> "put-audio"]
    ELSE IF pc = "putAudio" THEN
        IF o = "notOk"
        THEN [pc |-> "failed", err |-> "S3 upload failed", req |-> "none"]
        ELSE [pc |-> "startJob", err |-> "none", req |-> "transcribe"]
    ELSE
        IF o \in {"notOk", "noSuccess"}
        THEN [pc |-> "failed", err |-> "Transcription failed", req |-> "none"]
        ELSE IF o = "timedOut"
        THEN [pc |-> "failed", err |-> "TranscriptionTimeout", req |-> "none"]
        ELSE [pc |-> "done", err |-> "none", req |-> "none"]

\* handleStop: the blob of the buffered chunks, the buffer emptied, then
\* sendAudioToBackend up to its first await
HandleStop(s) ==
    /\ blob' = [blob EXCEPT ![s] = audioChunksRef]
    /\ audioChunksRef' = <<>>
    /\ handoffs' = [handoffs EXCEPT ![s] = @ + 1]
    /\ task' = [task EXCEPT ![s] = "getUploadUrl"]
    /\ taskErr' = [taskErr EXCEPT ![s] = "none"]
    /\ reqLog' = [reqLog EXCEPT ![s] = Append(@, "get-upload-url")]
    /\ UNCHANGED <<putStatus, delivered, deliveredText, produced>>

\* The handleStop of the component that posts the audio in one request
\* (direct strategy, see below). handleStop: the blob of the buffered chunks,
\* the buffer emptied, then sendAudioToBackend up to its first await, the probe
HandleStopDirect(s) ==
    /\ blob' = [blob EXCEPT ![s] = audioChunksRef]
    /\ audioChunksRef' = <<>>
    /\ handoffs' = [handoffs EXCEPT ![s] = @ + 1]
    /\ task' = [task EXCEPT ![s] = "probe"]
    /\ taskErr' = [taskErr EXCEPT ![s] = "none"]
    /\ reqLog' = [reqLog EXCEPT ![s] = Append(@, "test")]
    /\ UNCHANGED <<putStatus, delivered, deliveredText, produced>>

\* The event at the head of session s's recorder queue is dispatched to its
\* listener: the 'start' listener, handleDataAvailable or handleStop, the
\* handleStop of the direct component if direct is TRUE.
DispatchEventTo(s, direct) ==
    /\ evq[s] # <<>>
    /\ LET ev   == Head(evq[s])
           rest == [evq EXCEPT ![s] = Tail(@)]
       IN  \/ /\ ev = StartEvent
              /\ \E nonEmpty \in BOOLEAN :
                   LET rd == IF rec[s] = "recording"
                             THEN RequestData(s, rest, produced, nonEmpty)
                             ELSE [evq |-> rest, produced |-> produced]
                   IN  /\ evq' = rd.evq
                       /\ produced' = rd.produced
              /\ UNCHANGED audioChunksRef
              /\ UNCHANGED taskVars
           \/ /\ ev[1] = "dataavailable"
              /\ evq' = rest
              /\ audioChunksRef' = IF ev[2] > 0
                                   THEN Append(audioChunksRef, <<s, ev[2]>>)
                                   ELSE audioChunksRef
              /\ UNCHANGED produced
              /\ UNCHANGED taskVars
           \/ /\ ev = StopEvent
              /\ evq' = rest
              /\ IF direct THEN HandleStopDirect(s) ELSE HandleStop(s)
    /\ UNCHANGED <<isRecording, isProcessing, transcript, mediaRecorderRef,
                   timerRef, clicks, nextId, acq, rec, tracks, seconds, timerQueue,
                   stoppedBy, lastStop>>
    /\ UNCHANGED otherVars

\* The recorder of the staged component: its 'stop' listener is handleStop.
DispatchEvent(s) == DispatchEventTo(s, FALSE)

\* Session s's sendAudioToBackend call, its awaited fetch settled with outcome
\* o, runs to its next await, to onRecordingComplete or to its throw.
AfterFetch(s, o) ==
    /\ task[s] \in {"getUploadUrl", "putAudio", "startJob"}
    /\ LET nx == SendStep(task[s], o)
       IN  /\ task' = [task EXCEPT ![s] = nx.pc]
           /\ taskErr' = [taskErr EXCEPT ![s] = nx.err]
           /\ reqLog' = IF nx.req # "none"
                        THEN [reqLog EXCEPT ![s] = Append(@, nx.req)]
                        ELSE reqLog
           /\ putStatus' = IF task[s] = "putAudio"
                           THEN [putStatus EXCEPT ![s] = o]
                           ELSE putStatus
           \* onRecordingComplete({transcript, latex}) -> handleRecordingComplete
           /\ delivered' = IF nx.pc = "done"
                           THEN [delivered EXCEPT ![s] = @ + 1]
                           ELSE delivered
           /\ deliveredText' = IF nx.pc = "done"
                               THEN [deliveredText EXCEPT ![s] =
                                        IF o = "okNoText" THEN "empty" ELSE "text"]
                               ELSE deliveredText
           /\ transcript' = IF nx.pc = "done" THEN s ELSE transcript
    /\ UNCHANGED <<isRecording, isProcessing, handoffs, blob>>
    /\ UNCHANGED recorderVars

\* The fetch session s's sendAudioToBackend awaits settles with outcome o.
FetchSettles(s, o) ==
    /\ o \in Outcomes(task[s])
    /\ AfterFetch(s, o)
    /\ UNCHANGED otherVars

Next ==
    \/ HandleClickStart
    \/ HandleClickStop
    \/ \E s \in Sessions : GetUserMediaGranted(s)
    \/ \E s \in Sessions : GetUserMediaDenied(s)
    \/ \E t \in Sessions : TimerTick(t)
    \/ \E s \in Sessions : DispatchEvent(s)
    \/ \E s \in Sessions : \E o \in AllOutcomes : FetchSettles(s, o)

Spec == Init /\ [][Next]_vars

\* ======================================================= direct strategy
\* The AudioRecorder whose sendAudioToBackend posts the audio in one request
\* (vite.config.js). Its recorder code is that of the staged component; only
\* sendAudioToBackend differs. task, taskErr, reqLog, delivered and
\* deliveredText describe its calls as they describe the staged ones.

\* onRecordingComplete('x squared plus 2x plus 1 equals 0')
CannedTranscript == "x squared plus 2x plus 1 equals 0"

\* What the awaited fetch can do. The probe (GET /api/test): reject or resolve,
\* with any status. The main request (POST /api/transcribe): reject, answer
\* with a non-2xx status, or answer 2xx with a body that holds a transcript
\* ("ok"), an error ("noSuccess") or neither ("okNoText").
DirectOutcomes(pc) ==
    IF pc = "probe" THEN {"rejected", "notOk", "ok"} ELSE AllOutcomes

\* The code after the awaited fetch of step pc settled with outcome o: the next
\* position, the message of the Error caught, the request issued next and the
\* value given to onRecordingComplete.
DirectStep(pc, o) ==
    IF pc = "probe" THEN
        \* the probe's answer is not looked at, its rejection is caught and logged
        [pc |-> "main", err |-> "none", req |-> "transcribe", got |-> "none"]
    ELSE IF o = "rejected" THEN
        [pc |-> "done", err |-> "Failed to fetch", req |-> "none",
         got |-> CannedTranscript]
    ELSE IF o = "notOk" THEN
        [pc |-> "done", err |-> "Server responded with status", req |-> "none",
         got |-> CannedTranscript]
    ELSE IF o = "ok" THEN
        [pc |-> "done", err |-> "none", req |-> "none", got |-> "text"]
    ELSE IF o = "noSuccess" THEN
        [pc |-> "done", err |-> "data.error", req |-> "none",
         got |-> CannedTranscript]
    ELSE
        [pc |-> "done", err |-> "none", req |-> "none", got |-> CannedTranscript]

DispatchEventDirect(s) == DispatchEventTo(s, TRUE)

\* The fetch session s's sendAudioToBackend awaits settles with outcome o and
\* the call runs to its next await or to its end.
DirectFetchSettles(s, o) ==
    /\ task[s] \in {"probe", "main"}
    /\ o \in DirectOutcomes(task[s])
    /\ LET nx == DirectStep(task[s], o)
       IN  /\ task' = [task EXCEPT ![s] = nx.pc]
           /\ taskErr' = [taskErr EXCEPT ![s] = nx.err]
           /\ reqLog' = IF nx.req # "none"
                        THEN [reqLog EXCEPT ![s] = Append(@, nx.req)]
                        ELSE reqLog
           \* the answer of the main request, kept for the properties
           /\ putStatus' = IF task[s] = "main"
                           THEN [putStatus EXCEPT ![s] = o]
                           ELSE putStatus
           \* onRecordingComplete(text) -> handleRecordingComplete
           /\ delivered' = IF nx.got # "none"
                           THEN [delivered EXCEPT ![s] = @ + 1]
                           ELSE delivered
           /\ deliveredText' = IF nx.got # "none"
                               THEN [deliveredText EXCEPT ![s] = nx.got]
                               ELSE deliveredText
           /\ transcript' = IF nx.got # "none" THEN s ELSE transcript
    /\ UNCHANGED <<isRecording, isProcessing, handoffs, blob>>
    /\ UNCHANGED recorderVars
    /\ UNCHANGED otherVars

\* The probe of session s's call settles.
ProbeSettles(s) ==
    \E o \in AllOutcomes : task[s] = "probe" /\ DirectFetchSettles(s, o)

\* The main request of session s's call settles.
MainSettles(s) ==
    \E o \in AllOutcomes : task[s] = "main" /\ DirectFetchSettles(s, o)

NextDirect ==
    \/ HandleClickStart
    \/ HandleClickStop
    \/ \E s \in Sessions : GetUserMediaGranted(s)
    \/ \E s \in Sessions : GetUserMediaDenied(s)
    \/ \E t \in Sessions : TimerTick(t)
    \/ \E s \in Sessions : DispatchEventDirect(s)
    \/ \E s \in Sessions : ProbeSettles(s)
    \/ \E s \in Sessions : MainSettles(s)

SpecDirect == Init /\ [][NextDirect]_vars

\* What the browser's scheduling guarantees: a click, a permission prompt and
\* a network request may stay unanswered for ever, but a due timer callback
\* and a queued event are run.
ProgramStep ==
    \/ \E t \in Sessions : TimerTick(t)
    \/ \E s \in Sessions : DispatchEventDirect(s)

\* ... and a server that answers the main request, while the probe may stay
\* unanswered.
SpecDirectFair ==
    /\ SpecDirect
    /\ WF_vars(ProgramStep)
    /\ \A s \in Sessions : WF_vars(MainSettles(s))

\* ================================== staged strategy: the transcription job
\* POST /transcribe is answered by the backend's transcribe_audio handler: it
\* starts a job at the speech service, polls the job's status at a fixed
\* interval until the status is terminal or the wait ceiling is reached
\* (poll_transcription_job(job_name, max_wait_seconds)), and then answers.

\* The backend receives session s's transcription request and starts the job.
StartJob(s) ==
    /\ task[s] = "startJob"
    /\ jobStatus[s] = "none"
    /\ jobStatus' = [jobStatus EXCEPT ![s] = "IN_PROGRESS"]
    /\ UNCHANGED <<isRecording, isProcessing, transcript, unmounted, polls, normVars,
                   convVars, histVars>>
    /\ UNCHANGED recorderVars
    /\ UNCHANGED taskVars

\* The speech service finishes session s's job with status st.
JobProgress(s, st) ==
    /\ task[s] = "startJob"
    /\ jobStatus[s] = "IN_PROGRESS"
    /\ st \in {"COMPLETED", "FAILED"}
    /\ jobStatus' = [jobStatus EXCEPT ![s] = st]
    /\ UNCHANGED <<isRecording, isProcessing, transcript, unmounted, polls, normVars,
                   convVars, histVars>>
    /\ UNCHANGED recorderVars
    /\ UNCHANGED taskVars

\* One poll of the backend that finds session s's job unfinished, below the
\* wait ceiling: it sleeps for the polling interval.
PollJob(s) ==
    /\ task[s] = "startJob"
    /\ jobStatus[s] = "IN_PROGRESS"
    /\ polls[s] < WaitCeiling
    /\ polls' = [polls EXCEPT ![s] = @ + 1]
    /\ UNCHANGED <<isRecording, isProcessing, transcript, unmounted, jobStatus,
                   normVars, convVars, histVars>>
    /\ UNCHANGED recorderVars
    /\ UNCHANGED taskVars

\* The answer of the backend for a job: the transcript of a completed job
\* (which may be empty), the failure of a failed one, a timeout for a job
\* still unfinished.
JobAnswers(st) ==
    IF st = "COMPLETED" THEN {"ok", "okNoText"}
    ELSE IF st = "FAILED" THEN {"noSuccess"}
    ELSE {"timedOut"}

\* The poll that ends the backend's loop for session s's job, terminal or at
\* the wait ceiling; the answer reaches the waiting sendAudioToBackend call.
BackendAnswers(s) ==
    /\ task[s] = "startJob"
    /\ jobStatus[s] # "none"
    /\ jobStatus[s] \in {"COMPLETED", "FAILED"} \/ polls[s] >= WaitCeiling
    /\ \E o \in JobAnswers(jobStatus[s]) : AfterFetch(s, o)
    /\ UNCHANGED otherVars

\* The transcription request itself fails: it is rejected or answered with a
\* non-2xx status by the network or the server in front of the handler.
RequestFails(s) ==
    /\ task[s] = "startJob"
    /\ \E o \in {"rejected", "notOk"} : FetchSettles(s, o)

\* The fetch of one of the first two steps settles.
UploadSettles(s) ==
    /\ task[s] \in {"getUploadUrl", "putAudio"}
    /\ \E o \in AllOutcomes : FetchSettles(s, o)

\* The cleanup of the component's effect, run when AudioRecorder is removed
\* from the page. It is followed here in the states where the recorder at
\* mediaRecorderRef, if any, is inactive with no event left to dispatch, so
\* that removeEventListener has nothing to act on; clearInterval stops the
\* timer at timerRef.
Unmount ==
    /\ ~unmounted
    /\ mediaRecorderRef # NoRef
         => rec[mediaRecorderRef] = "inactive" /\ evq[mediaRecorderRef] = <<>>
    /\ unmounted' = TRUE
    /\ timerQueue' = IF timerRef # NoRef THEN Remove(timerQueue, timerRef)
                     ELSE timerQueue
    /\ UNCHANGED <<isRecording, isProcessing, transcript, mediaRecorderRef,
                   timerRef, audioChunksRef, clicks, nextId, acq, rec, tracks,
                   seconds, evq, produced, stoppedBy, lastStop, jobStatus, polls,
                   normVars, convVars, histVars>>
    /\ UNCHANGED taskVars

\* The staged component with its backend, for a user who starts one recording
\* and may leave the page. A removed component takes no clicks.
NextJob ==
    \/ ~unmounted /\ nextId = 0 /\ HandleClickStart
    \/ ~unmounted /\ HandleClickStop
    \/ \E s \in Sessions : GetUserMediaGranted(s)
    \/ \E s \in Sessions : GetUserMediaDenied(s)
    \/ \E t \in Sessions : TimerTick(t)
    \/ \E s \in Sessions : DispatchEvent(s)
    \/ \E s \in Sessions : UploadSettles(s)
    \/ \E s \in Sessions : RequestFails(s)
    \/ \E s \in Sessions : StartJob(s)
    \/ \E s \in Sessions : \E st \in {"COMPLETED", "FAILED"} : JobProgress(s, st)
    \/ \E s \in Sessions : PollJob(s)
    \/ \E s \in Sessions : BackendAnswers(s)
    \/ Unmount

SpecJob == Init /\ [][NextJob]_vars

\* The backend's loop runs: a started handler starts its job, each poll is
\* followed by the next after the polling interval and the loop's answer is
\* sent. The speech service need not finish a job, and the network need not
\* answer the requests of the first two steps.
SpecJobFair ==
    /\ SpecJob
    /\ \A s \in Sessions : WF_vars(StartJob(s))
    /\ \A s \in Sessions : WF_vars(PollJob(s))
    /\ \A s \in Sessions : WF_vars(BackendAnswers(s))

\* ------------------------------------------------- leaving without a stop
\* startRecording after getUserMedia resolved, when new MediaRecorder(stream,
\* {mimeType: 'audio/webm;codecs=opus'}) or start() throws (a browser without
\* that container): the stream is open, no recorder was stored and no timer
\* set; the catch block calls setIsRecording(false) and nothing else.
StartRecordingThrows(s) ==
    /\ acq[s] = "pending"
    /\ acq' = [acq EXCEPT ![s] = "granted"]
    /\ tracks' = [tracks EXCEPT ![s] = "live"]
    /\ isRecording' = FALSE
    /\ UNCHANGED <<isProcessing, transcript, mediaRecorderRef, timerRef,
                   audioChunksRef, clicks, nextId, rec, seconds, timerQueue,
                   evq, produced, stoppedBy, lastStop>>
    /\ UNCHANGED taskVars
    /\ UNCHANGED otherVars

\* The cleanup of the component's effect, run while the recorder at
\* mediaRecorderRef is recording or has events left to dispatch.
\* removeEventListener is given the handleDataAvailable and handleStop of the
\* first render: it removes the recorder's listeners when the recording was
\* started from that render (removed) and nothing otherwise; the events of a
\* recorder without listeners are lost. clearInterval stops the timer at
\* timerRef. The recorder and the tracks of its stream are not touched. The
\* cleanup is followed here once the anonymous 'start' listener has run.
UnmountRecording ==
    /\ ~unmounted
    /\ mediaRecorderRef # NoRef
    /\ rec[mediaRecorderRef] = "recording" \/ evq[mediaRecorderRef] # <<>>
    /\ \A i \in 1..Len(evq[mediaRecorderRef]) :
           evq[mediaRecorderRef][i] # StartEvent
    /\ unmounted' = TRUE
    /\ \E removed \in BOOLEAN :
           evq' = IF removed THEN [evq EXCEPT ![mediaRecorderRef] = <<>>] ELSE evq
    /\ timerQueue' = IF timerRef # NoRef THEN Remove(timerQueue, timerRef)
                     ELSE timerQueue
    /\ UNCHANGED <<isRecording, isProcessing, transcript, mediaRecorderRef,
                   timerRef, audioChunksRef, clicks, nextId, acq, rec, tracks,
                   seconds, produced, stoppedBy, lastStop, jobStatus, polls,
                   normVars, convVars, histVars>>
    /\ UNCHANGED taskVars

\* The staged component for a user who starts one recording, on a browser
\* that may fail to build the recorder, and who may leave the page while the
\* recorder runs. A removed component takes no clicks.
NextRelease ==
    \/ ~unmounted /\ nextId = 0 /\ HandleClickStart
    \/ ~unmounted /\ HandleClickStop
    \/ \E s \in Sessions : GetUserMediaGranted(s)
    \/ \E s \in Sessions : GetUserMediaDenied(s)
    \/ \E s \in Sessions : StartRecordingThrows(s)
    \/ \E t \in Sessions : TimerTick(t)
    \/ \E s \in Sessions : DispatchEvent(s)
    \/ \E s \in Sessions : \E o \in AllOutcomes : FetchSettles(s, o)
    \/ UnmountRecording

SpecRelease == Init /\ [][NextRelease]_vars

\* ====================================================== phrase normalizer
\* convertToLatex(text) of the Home component that converts locally. Texts
\* are strings; Char(s, i) is the i-th character.
Char(s, i) == SubSeq(s, i, i)

\* The element of a one-element set. The({f(v) : v \in {e}}) is f of the
\* value of e: a `const v = e` of the source, e computed once.
The(S) == CHOOSE v \in S : TRUE

Lower == "abcdefghijklmnopqrstuvwxyz"
Upper == "ABCDEFGHIJKLMNOPQRSTUVWXYZ"

\* \s, \d and \w of a regular expression
WhiteSpace == {" ", "\t", "\n", "\r"}
Digits == {"0", "1", "2", "3", "4", "5", "6", "7", "8", "9"}
WordChars == {Char(Lower, i) : i \in 1..Len(Lower)}
                 \cup {Char(Upper, i) : i \in 1..Len(Upper)} \cup Digits \cup {"_"}

\* text.toLowerCase()
ToLowerChar(c) ==
    IF \E i \in 1..Len(Upper) : Char(Upper, i) = c
    THEN Char(Lower, CHOOSE i \in 1..Len(Upper) : Char(Upper, i) = c)
    ELSE c

\* (computed by halves, which keeps the evaluation shallow)
RECURSIVE ToLowerCase(_)
ToLowerCase(s) ==
    IF Len(s) = 0 THEN ""
    ELSE IF Len(s) = 1 THEN ToLowerChar(s)
    ELSE LET h == Len(s) \div 2
         IN  ToLowerCase(SubSeq(s, 1, h)) \o ToLowerCase(SubSeq(s, h + 1, Len(s)))

\* \b before the i-th character of s (i = Len(s) + 1: at the end)
IsBoundary(s, i) ==
    LET before == i > 1 /\ Char(s, i - 1) \in WordChars
        after  == i <= Len(s) /\ Char(s, i) \in WordChars
    IN  before # after

\* the index behind the longest run of characters of class C that starts at i
RunEnd(s, i, C) ==
    The({ IF stops = {} THEN Len(s) + 1
          ELSE CHOOSE j \in stops : \A k \in stops : j <= k
          : stops \in {{j \in i..Len(s) : Char(s, j) \notin C}} })

\* A pattern is a sequence of elements: "\\b", a captured "\\w+" or "\\d+", a
\* run of white space "\\s+" or "\\s*", or a literal text. In every pattern of convertToLatex the element after a
\* captured run starts with a character outside the run's class, so that the
\* greedy run is the only way to match. The match of elements k.. of pat at
\* index i of s: whether there is one, where it ends, what was captured.
RECURSIVE MatchFrom(_, _, _, _, _)
MatchFrom(s, i, pat, k, caps) ==
    IF k > Len(pat) THEN [ok |-> TRUE, end |-> i, caps |-> caps]
    ELSE LET e    == pat[k]
             fail == [ok |-> FALSE, end |-> i, caps |-> <<>>]
         IN  IF e = "\\b" THEN
                 IF IsBoundary(s, i) THEN MatchFrom(s, i, pat, k + 1, caps) ELSE fail
             ELSE IF e = "\\s+" THEN
                 The({ IF j > i THEN MatchFrom(s, j, pat, k + 1, caps) ELSE fail
                       : j \in {RunEnd(s, i, WhiteSpace)} })
             ELSE IF e = "\\s*" THEN
                 The({ MatchFrom(s, j, pat, k + 1, caps)
                       : j \in {RunEnd(s, i, WhiteSpace)} })
             ELSE IF e \in {"\\w+", "\\d+"} THEN
                 The({ IF j > i
                       THEN MatchFrom(s, j, pat, k + 1, Append(caps, SubSeq(s, i, j - 1)))
                       ELSE fail
                       : j \in {RunEnd(s, i, IF e = "\\w+" THEN WordChars ELSE Digits)} })
             ELSE
                 IF i + Len(e) - 1 <= Len(s) /\ SubSeq(s, i, i + Len(e) - 1) = e
                 THEN MatchFrom(s, i + Len(e), pat, k + 1, caps)
                 ELSE fail

\* a replacement string with its $1 and $2 filled in
RECURSIVE Expand(_, _, _)
Expand(out, caps, k) ==
    IF k > Len(out) THEN ""
    ELSE (IF out[k] = "$1" THEN caps[1]
          ELSE IF out[k] = "$2" THEN caps[2]
          ELSE out[k]) \o Expand(out, caps, k + 1)

\* the first index from i on at which pat matches, 0 if there is none
NextMatch(s, i, pat) ==
    The({ IF at = {} THEN 0 ELSE CHOOSE j \in at : \A k \in at : j <= k
          : at \in {{j \in i..Len(s) : MatchFrom(s, j, pat, 1, <<>>).ok}} })

\* The replacement without the g flag: only the first match is replaced.
ReplaceFromOnce(s, i, rule) ==
    The({ IF j = 0 THEN SubSeq(s, i, Len(s))
          ELSE The({ SubSeq(s, i, j - 1) \o Expand(rule.out, m.caps, 1)
                         \o SubSeq(s, m.end, Len(s))
                     : m \in {MatchFrom(s, j, rule.pat, 1, <<>>)} })
          : j \in {NextMatch(s, i, rule.pat)} })

\* s.replace(/pat/g, out) from index i on: the matches are looked for from
\* left to right, each search starting behind the previous match
RECURSIVE ReplaceFrom(_, _, _)
ReplaceFrom(s, i, rule) ==
    The({ IF j = 0 THEN SubSeq(s, i, Len(s))
          ELSE The({ SubSeq(s, i, j - 1) \o Expand(rule.out, m.caps, 1)
                         \o ReplaceFrom(s, m.end, rule)
                     : m \in {MatchFrom(s, j, rule.pat, 1, <<>>)} })
          : j \in {NextMatch(s, i, rule.pat)} })

\* (s.match(/pat/g) || []).length
RECURSIVE CountFrom(_, _, _)
CountFrom(s, i, pat) ==
    The({ IF j = 0 THEN 0
          ELSE The({ 1 + CountFrom(s, end, pat)
                     : end \in {MatchFrom(s, j, pat, 1, <<>>).end} })
          : j \in {NextMatch(s, i, pat)} })

CountMatches(s, pat) == CountFrom(s, 1, pat)

\* A rule without the word boundaries: the phrase is replaced wherever its
\* letters occur.
WordRuleNoBoundary(w, r) == [pat |-> <<w>>, out |-> <<r>>]

\* .replace(/\bw\b/g, r)
WordRule(w, r) == [pat |-> <<"\\b", w, "\\b">>, out |-> <<r>>]

\* wordToNumber, in the order of its keys
NumberNames == <<"zero", "one", "two", "three", "four", "five", "six", "seven",
                 "eight", "nine", "ten">>
DigitForms == <<"0", "1", "2", "3", "4", "5", "6", "7", "8", "9", "10">>

NumberRules == [n \in 1..Len(NumberNames) |-> WordRule(NumberNames[n], DigitForms[n])]

\* the chain of replacements, in the order of the source
MathRules == <<
    WordRule("plus", "+"),
    WordRule("minus", "-"),
    WordRule("times", "\\times "),
    WordRule("divided by", "\\div "),
    WordRule("equal to", "="),
    WordRule("equals", "="),
    WordRule("is equal to", "="),
    WordRule("squared", "^2"),
    WordRule("cubed", "^3"),
    [pat |-> <<"\\b", "to the power of ", "\\w+", "\\b">>, out |-> <<"^{", "$1", "}">>],
    [pat |-> <<"\\b", "to the ", "\\w+", " power", "\\b">>, out |-> <<"^{", "$1", "}">>],
    WordRule("fraction", "\\frac"),
    [pat |-> <<"\\d+", " over ", "\\d+">>, out |-> <<"\\frac{", "$1", "}{", "$2", "}">>],
    WordRule("integral", "\\int "),
    [pat |-> <<"\\b", "from ", "\\w+", " to ", "\\w+", "\\b">>,
     out |-> <<"_{", "$1", "}^{", "$2", "}">>],
    WordRule("derivative of", "\\frac{d}{dx}"),
    WordRule("sine", "\\sin "),
    WordRule("cosine", "\\cos "),
    WordRule("tangent", "\\tan "),
    WordRule("pi", "\\pi "),
    WordRule("square root of", "\\sqrt{"),
    WordRule("cube root of", "\\sqrt[3]{"),
    WordRule("left parenthesis", "("),
    WordRule("right parenthesis", ")") >>

\* The replacements lo..hi of rules applied to s one after the other, in
\* their order. (Computed by halves, which keeps the evaluation shallow.)
RECURSIVE ApplyRange(_, _, _, _)
ApplyRange(s, rules, lo, hi) ==
    IF lo > hi THEN s
    ELSE IF lo = hi THEN ReplaceFrom(s, 1, rules[lo])
    ELSE The({ ApplyRange(r, rules, ((lo + hi) \div 2) + 1, hi)
               : r \in {ApplyRange(s, rules, lo, (lo + hi) \div 2)} })

ApplyRules(s, rules) == ApplyRange(s, rules, 1, Len(rules))

\* The runs of blanks removed instead of collapsed.
CollapseSpacesAway(s) == ReplaceFrom(s, 1, [pat |-> <<"\\s+">>, out |-> <<"">>])

\* .replace(/\s+/g, " ")
CollapseSpaces(s) == ReplaceFrom(s, 1, [pat |-> <<"\\s+">>, out |-> <<" ">>])

\* .trim()
RECURSIVE Trim(_)
Trim(s) ==
    IF Len(s) > 0 /\ Char(s, 1) \in WhiteSpace THEN Trim(SubSeq(s, 2, Len(s)))
    ELSE IF Len(s) > 0 /\ Char(s, Len(s)) \in WhiteSpace
    THEN Trim(SubSeq(s, 1, Len(s) - 1))
    ELSE s

\* c.repeat(n): a RangeError for a negative count
RECURSIVE RepeatStr(_, _)
RepeatStr(c, n) == IF n <= 0 THEN "" ELSE c \o RepeatStr(c, n - 1)

Repeat(c, n) ==
    IF n < 0 THEN [threw |-> TRUE, value |-> "RangeError: Invalid count value"]
    ELSE [threw |-> FALSE, value |-> RepeatStr(c, n)]

\* The braces appended without the test `openSqrt > closeBraces`.
ClosingBracesUnguarded(openSqrt, closeBraces) == Repeat("}", openSqrt - closeBraces)

\* A brace appended for every root opened, the braces present not deducted.
ClosingBracesForEveryRoot(openSqrt, closeBraces) ==
    IF openSqrt > closeBraces THEN Repeat("}", openSqrt)
    ELSE [threw |-> FALSE, value |-> ""]

\* `if (openSqrt > closeBraces) latexText += "}".repeat(openSqrt - closeBraces)`
ClosingBraces(openSqrt, closeBraces) ==
    IF openSqrt > closeBraces THEN Repeat("}", openSqrt - closeBraces)
    ELSE [threw |-> FALSE, value |-> ""]

\* convertToLatex(text) up to `.replace(/\s+/g, " ").trim()`: the text whose
\* braces are counted
CleanedText(t) ==
    The({ The({ Trim(CollapseSpaces(replaced))
                : replaced \in {ApplyRules(processedText, MathRules)} })
          : processedText \in {ApplyRules(ToLowerCase(t), NumberRules)} })

\* convertToLatex(text): what it returns, or that it threw
ConvertToLatex(t) ==
    The({ The({ IF closing.threw THEN closing
                ELSE [threw |-> FALSE, value |-> cleaned \o closing.value]
                : closing \in {ClosingBraces(
                      CountMatches(cleaned, <<"\\sqrt{">>)
                          + CountMatches(cleaned, <<"\\sqrt[", "\\d+", "]{">>),
                      CountMatches(cleaned, <<"}">>))} })
          : cleaned \in {CleanedText(t)} })

\* ------------------------------------------------------------- the inputs
\* the phrases of q, a blank between two
RECURSIVE Join(_)
Join(q) ==
    IF Len(q) = 0 THEN ""
    ELSE IF Len(q) = 1 THEN q[1]
    ELSE q[1] \o " " \o Join(Tail(q))

\* number names, their digit forms, and longer words that hold a number name
LongerWords == {"often", "someone", "none", "stone", "height", "sixty", "twofold",
                "tenth", "ten_x", "x2one", "freight"}

NumberInputs ==
    {NumberNames[n] : n \in 1..Len(NumberNames)}
        \cup {DigitForms[n] : n \in 1..Len(DigitForms)}
        \cup LongerWords \cup {"Seven", "TEN"}

\* the three spoken forms of the relation, between two operands
Operands == {"x", "y", "2"}
RelationPhrases == {"is equal to", "equal to", "equals"}

RelationInputs ==
    {a \o " " \o ph \o " " \o b : a \in Operands, b \in Operands, ph \in RelationPhrases}

\* spoken phrases without braces: roots, powers, a fraction, integral bounds,
\* a derivative, an operator; every sequence of at most MaxPhrases of them
Phrases == {"square root of x", "cube root of y", "x to the power of 2",
            "to the n power", "1 over 2", "integral from 0 to 1",
            "derivative of x", "plus x"}

PhraseInputs ==
    {Join(q) : q \in UNION {[1..k -> Phrases] : k \in 0..MaxPhrases}}

\* the two worked examples
RootExample == "square root of 4"
QuadraticExample == "x squared plus 2x plus 1 equals 0"

\* "A over B" for digit strings, number names and variable names
FractionOperands == {"3", "12", "one", "ten", "x", "n"}

FractionInputs == {A \o " over " \o B : A \in FractionOperands, B \in FractionOperands}

\* texts without any phrase of the chain, with and without LaTeX of their own
PlainInputs == {"hello world", "let f be a map", "stone age", "a_b c",
                "\\sqrt{x}", "a \\sqrt{ b", "\\sqrt[3]{x"}

\* texts with more roots opened than braces closed, some braces closed
RepairInputs == {"\\sqrt{a} \\sqrt{b \\sqrt{c",
                 "square root of x to the power of 2 cube root of y",
                 "a} \\sqrt[3]{ b"}

Inputs ==
    NumberInputs \cup RelationInputs \cup PhraseInputs \cup FractionInputs
        \cup PlainInputs \cup RepairInputs \cup {RootExample, QuadraticExample}

\* a convertToLatex call about to be made
InitNorm ==
    /\ isRecording = FALSE
    /\ isProcessing = FALSE
    /\ transcript = 0
    /\ mediaRecorderRef = NoRef
    /\ timerRef = NoRef
    /\ audioChunksRef = <<>>
    /\ clicks = 0
    /\ nextId = 0
    /\ acq = [s \in Sessions |-> "none"]
    /\ rec = [s \in Sessions |-> "none"]
    /\ tracks = [s \in Sessions |-> "none"]
    /\ seconds = [s \in Sessions |-> 0]
    /\ timerQueue = <<>>
    /\ evq = [s \in Sessions |-> <<>>]
    /\ produced = [s \in Sessions |-> 0]
    /\ stoppedBy = [s \in Sessions |-> "none"]
    /\ lastStop = "none"
    /\ handoffs = [s \in Sessions |-> 0]
    /\ blob = [s \in Sessions |-> <<>>]
    /\ task = [s \in Sessions |-> "none"]
    /\ taskErr = [s \in Sessions |-> "none"]
    /\ reqLog = [s \in Sessions |-> <<>>]
    /\ putStatus = [s \in Sessions |-> "none"]
    /\ delivered = [s \in Sessions |-> 0]
    /\ deliveredText = [s \in Sessions |-> "none"]
    /\ unmounted = FALSE
    /\ jobStatus = [s \in Sessions |-> "none"]
    /\ polls = [s \in Sessions |-> 0]
    /\ text \in Inputs
    /\ latexText = ""
    /\ normState = "pending"
    /\ apiKey = TRUE
    /\ localTranscript = ""
    /\ latex = ""
    /\ error = ""
    /\ convCalls = <<>>
    /\ requests = 0
    /\ errorTimers = 0
    /\ history = <<>>
    /\ deletions = <<>>

\* the call is made and returns or throws
Convert ==
    /\ normState = "pending"
    /\ LET r == ConvertToLatex(text)
       IN  /\ normState' = IF r.threw THEN "threw" ELSE "returned"
           /\ latexText' = IF r.threw THEN latexText ELSE r.value
    /\ UNCHANGED <<isRecording, isProcessing, transcript, text, unmounted,
                   jobStatus, polls, convVars, histVars>>
    /\ UNCHANGED recorderVars
    /\ UNCHANGED taskVars

NextNorm == Convert

SpecNorm == InitNorm /\ [][NextNorm]_vars

\* ================================================ the conversion to LaTeX
\* Home.handleGenerateLatex, started by the Generate button of
\* TranscriptDisplay, and geminiService.convertToLatex. A click is handled
\* to its first await before the next event, the page rendered again in
\* between: the button and handleSubmit see the isProcessing the click set.

\* handleGenerateLatex calls the model follows
MaxConversions == 2

\* --------------------------------------------- services/geminiService.js
\* the backtick (written with its closing quote, taken alone)
Backtick == SubSeq("`'", 1, 1)

Fence == Backtick \o Backtick \o Backtick

\* latexCode.trim().replace(/```latex\s*/g, '').replace(/```\s*/g, '').trim()
CleanLatex(latexCode) ==
    The({ The({ Trim(ReplaceFrom(untagged, 1, [pat |-> <<Fence, "\\s*">>, out |-> <<"">>]))
                : untagged \in {ReplaceFrom(trimmed, 1, [pat |-> <<Fence \o "latex", "\\s*">>,
                                                          out |-> <<"">>])} })
          : trimmed \in {Trim(latexCode)} })

\* The texts a fetch is rejected with: a connection that fails (as Chrome
\* and as Safari word it) and a request that times out.
RejectMessages == {"Failed to fetch", "Load failed", "The request timed out."}

KindOfReject(m) == IF m = "The request timed out." THEN "timeout" ELSE "network"

\* data.candidates?.[0]?.content?.parts?.[0]?.text of an answer: "" stands
\* for a missing and for an empty text alike (`!latexCode`)
Tags == {"", "latex", "tex"}
Bodies == {"$$x^2$$", "$\\frac{1}{2}$"}

FencedTexts == {Fence \o tag \o "\n" \o body \o "\n" \o Fence : tag \in Tags, body \in Bodies}

\* texts of blanks and fences alone
BlankTexts == {" \n", Fence \o "latex\n" \o Fence, Fence \o "\n" \o Fence}

CandidateTexts == FencedTexts \cup BlankTexts \cup {"", "$$x^2$$", " $x^2$\n"}

\* A response: response.ok, response.status, whether response.json() parses
\* the body, and what it holds: the text of the first candidate of a success
\* answer, JSON.stringify(errorData) of another.
ErrorResponses ==
    {[ok |-> FALSE, status |-> "400", json |-> TRUE, body |-> "{\"error\":\"API key not valid\"}"],
     [ok |-> FALSE, status |-> "503", json |-> TRUE, body |-> "{\"error\":\"overloaded\"}"],
     [ok |-> FALSE, status |-> "504", json |-> TRUE, body |-> "{\"error\":\"upstream timed out\"}"],
     [ok |-> FALSE, status |-> "502", json |-> FALSE, body |-> "<html>"]}

OkResponses ==
    {[ok |-> TRUE, status |-> "200", json |-> TRUE, body |-> c] : c \in CandidateTexts}
        \cup {[ok |-> TRUE, status |-> "200", json |-> FALSE, body |-> "<html>"]}

NoResponse == [ok |-> FALSE, status |-> "", json |-> FALSE, body |-> ""]

FetchAnswers ==
    {[rejected |-> TRUE, message |-> m, resp |-> NoResponse] : m \in RejectMessages}
        \cup {[rejected |-> FALSE, message |-> "", resp |-> r] : r \in ErrorResponses \cup OkResponses}

\* the message of the SyntaxError of response.json()
SyntaxErrorMessage == "Unexpected token '<'"

\* convertToLatex from `await response.json()` on: what it returns or the
\* message of what it throws, with the kind of failure that led there
JsonResult(resp) ==
    IF ~resp.ok THEN
        IF resp.json
        THEN [threw |-> TRUE, kind |-> "service",
              value |-> "Gemini API error: " \o resp.status \o " - " \o resp.body]
        ELSE [threw |-> TRUE, kind |-> "service", value |-> SyntaxErrorMessage]
    ELSE IF ~resp.json THEN [threw |-> TRUE, kind |-> "unknown", value |-> SyntaxErrorMessage]
    ELSE IF resp.body = ""
    THEN [threw |-> TRUE, kind |-> "empty", value |-> "No LaTeX code returned from Gemini API"]
    ELSE [threw |-> FALSE, kind |-> "ok", value |-> CleanLatex(resp.body)]

\* ------------------------------------------------- components/Home/Home.jsx
\* str.includes(sub)
Includes(str, sub) == NextMatch(str, 1, <<sub>>) # 0

\* the cross mark the messages start with, in ASCII
Mark == "(x) "

NetworkMessage == Mark \o "Network error: Failed to connect to Gemini API"
TimeoutMessage == Mark \o "Request timed out, please try again"
ServicePrefix == Mark \o "Gemini API error: "
UnknownPrefix == Mark \o "Error: "

\* errorMessage of the catch block for an error with this message
ErrorMessage(message) ==
    IF Includes(message, "Failed to fetch") \/ Includes(message, "Network")
    THEN NetworkMessage
    ELSE IF Includes(message, "timeout") \/ Includes(message, "timed out")
    THEN TimeoutMessage
    ELSE IF Includes(message, "API error") THEN ServicePrefix \o message
    ELSE UnknownPrefix \o message

\* what the recorder and the normalizer own
restVars == <<isRecording, transcript, recorderVars, taskVars, unmounted, jobStatus,
              polls, normVars, histVars>>

\* the texts of the textarea
Transcripts == {"x squared", " one over two "}

\* Home and TranscriptDisplay with a text in the textarea
InitConv ==
    /\ isRecording = FALSE
    /\ isProcessing = FALSE
    /\ transcript = 0
    /\ mediaRecorderRef = NoRef
    /\ timerRef = NoRef
    /\ audioChunksRef = <<>>
    /\ clicks = 0
    /\ nextId = 0
    /\ acq = [s \in Sessions |-> "none"]
    /\ rec = [s \in Sessions |-> "none"]
    /\ tracks = [s \in Sessions |-> "none"]
    /\ seconds = [s \in Sessions |-> 0]
    /\ timerQueue = <<>>
    /\ evq = [s \in Sessions |-> <<>>]
    /\ produced = [s \in Sessions |-> 0]
    /\ stoppedBy = [s \in Sessions |-> "none"]
    /\ lastStop = "none"
    /\ handoffs = [s \in Sessions |-> 0]
    /\ blob = [s \in Sessions |-> <<>>]
    /\ task = [s \in Sessions |-> "none"]
    /\ taskErr = [s \in Sessions |-> "none"]
    /\ reqLog = [s \in Sessions |-> <<>>]
    /\ putStatus = [s \in Sessions |-> "none"]
    /\ delivered = [s \in Sessions |-> 0]
    /\ deliveredText = [s \in Sessions |-> "none"]
    /\ unmounted = FALSE
    /\ jobStatus = [s \in Sessions |-> "none"]
    /\ polls = [s \in Sessions |-> 0]
    /\ text = ""
    /\ latexText = ""
    /\ normState = "pending"
    /\ apiKey \in BOOLEAN
    /\ localTranscript \in Transcripts
    /\ latex = ""
    /\ error = ""
    /\ convCalls = <<>>
    /\ requests = 0
    /\ errorTimers = 0
    /\ history = <<>>
    /\ deletions = <<>>

\* A call of handleGenerateLatex: its argument, where it stands ("fetch" and
\* "json" at the two awaits of convertToLatex, "done" when it has completed,
\* "raised" when it has thrown), the response it got, and for the record the
\* kind of its outcome and the LaTeX shown when it started.
NewCall(arg) ==
    [arg |-> arg, pc |-> "fetch", resp |-> NoResponse, kind |-> "none", latexBefore |-> latex]

\* The click starts a conversion whatever isProcessing is.
HandleSubmitUnguarded ==
    /\ Trim(localTranscript) # ""
    /\ Len(convCalls) < MaxConversions
    /\ isProcessing' = TRUE
    /\ error' = ""
    /\ convCalls' = Append(convCalls, NewCall(Trim(localTranscript)))
    /\ requests' = requests + 1
    /\ UNCHANGED <<apiKey, localTranscript, latex, errorTimers>>
    /\ UNCHANGED restVars

\* TranscriptDisplay.handleSubmit and handleGenerateLatex up to the fetch of
\* convertToLatex, which is sent whether or not a key is configured
HandleSubmit ==
    /\ Trim(localTranscript) # ""
    /\ ~isProcessing
    /\ Len(convCalls) < MaxConversions
    /\ isProcessing' = TRUE
    /\ error' = ""
    /\ convCalls' = Append(convCalls, NewCall(Trim(localTranscript)))
    /\ requests' = requests + 1
    /\ UNCHANGED <<apiKey, localTranscript, latex, errorTimers>>
    /\ UNCHANGED restVars

\* The failure is neither caught nor followed by the finally block.
AfterConvertUncaught(i, r) ==
    /\ latex' = IF r.threw THEN latex ELSE r.value
    /\ isProcessing' = IF r.threw THEN isProcessing ELSE FALSE
    /\ convCalls' = [convCalls EXCEPT ![i].pc = IF r.threw THEN "raised" ELSE "done",
                                      ![i].kind = r.kind, ![i].resp = NoResponse]
    /\ UNCHANGED <<apiKey, localTranscript, requests, error, errorTimers>>

\* After a failure the LaTeX of the phrase normalizer is shown.
AfterConvertWithFallback(i, r) ==
    /\ latex' = IF r.threw THEN ConvertToLatex(convCalls[i].arg).value ELSE r.value
    /\ error' = IF r.threw THEN ErrorMessage(r.value) ELSE error
    /\ errorTimers' = IF r.threw THEN errorTimers + 1 ELSE errorTimers
    /\ isProcessing' = FALSE
    /\ convCalls' = [convCalls EXCEPT ![i].pc = "done", ![i].kind = r.kind,
                                      ![i].resp = NoResponse]
    /\ UNCHANGED <<apiKey, localTranscript, requests>>

\* handleGenerateLatex after `await geminiService.convertToLatex(...)`: the
\* rest of the try block or the catch block, then the finally block
AfterConvert(i, r) ==
    /\ latex' = IF r.threw THEN latex ELSE r.value
    /\ error' = IF r.threw THEN ErrorMessage(r.value) ELSE error
    /\ errorTimers' = IF r.threw THEN errorTimers + 1 ELSE errorTimers
    /\ isProcessing' = FALSE
    /\ convCalls' = [convCalls EXCEPT ![i].pc = "done", ![i].kind = r.kind,
                                      ![i].resp = NoResponse]
    /\ UNCHANGED <<apiKey, localTranscript, requests>>

\* the fetch of call i settles: rejected, or with a response whose body is
\* read next
GeminiFetchSettles(i, o) ==
    /\ i \in 1..Len(convCalls)
    /\ convCalls[i].pc = "fetch"
    /\ IF o.rejected
       THEN AfterConvert(i, [threw |-> TRUE, kind |-> KindOfReject(o.message),
                             value |-> o.message])
       ELSE /\ convCalls' = [convCalls EXCEPT ![i].pc = "json", ![i].resp = o.resp]
            /\ UNCHANGED <<isProcessing, apiKey, localTranscript, latex, error, requests,
                           errorTimers>>
    /\ UNCHANGED restVars

\* response.json() of call i settles
GeminiJsonSettles(i) ==
    /\ i \in 1..Len(convCalls)
    /\ convCalls[i].pc = "json"
    /\ AfterConvert(i, JsonResult(convCalls[i].resp))
    /\ UNCHANGED restVars

\* `setTimeout(() => { setError('') }, 8000)` fires
ClearError ==
    /\ errorTimers > 0
    /\ error' = ""
    /\ errorTimers' = errorTimers - 1
    /\ UNCHANGED <<isProcessing, apiKey, localTranscript, latex, convCalls, requests>>
    /\ UNCHANGED restVars

NextConv ==
    \/ HandleSubmit
    \/ \E i \in 1..MaxConversions, o \in FetchAnswers : GeminiFetchSettles(i, o)
    \/ \E i \in 1..MaxConversions : GeminiJsonSettles(i)
    \/ ClearError

SpecConv == InitConv /\ [][NextConv]_vars

\* ========================================================= history panel
\* HistoryPanel: the list of the user's records and handleDeleteItem. A
\* record is its timestamp, by which it is deleted and filtered. A click is
\* handled by the handler of the latest render, whose `history` is the list
\* shown at the click.

\* records the backend holds for the user
MaxRecords == 3
\* handleDeleteItem calls the model follows
MaxDeletions == 3

histRest == <<isRecording, isProcessing, transcript, recorderVars, taskVars,
              unmounted, jobStatus, polls, normVars, convVars>>

\* fetchHistory of the effect, answered with success and n records:
\* setHistory(result.records)
HistoryLoads(n) ==
    /\ history = <<>>
    /\ deletions = <<>>
    /\ history' = [k \in 1..n |-> k]
    /\ UNCHANGED deletions
    /\ UNCHANGED histRest

\* What the awaited deleteHistoryRecord can do: resolve with success true,
\* resolve with success false, or throw again what axios.delete threw.
DeleteOutcomes == {"success", "failure", "rejected"}

\* handleDeleteItem(item, e) up to its await: window.confirm, then the DELETE
\* request is sent; `seen` is the `history` of the handler's render.
HandleDeleteItem(item, confirmed) ==
    /\ \E k \in 1..Len(history) : history[k] = item
    /\ Len(deletions) < MaxDeletions
    /\ deletions' = IF confirmed
                    THEN Append(deletions, [item |-> item, seen |-> history,
                                            pc |-> "delete", result |-> "none"])
                    ELSE deletions
    /\ UNCHANGED history
    /\ UNCHANGED histRest

\* handleDeleteItem after deleteHistoryRecord settled with outcome o:
\* setHistory(history.filter(h => h.timestamp !== item.timestamp)) on success,
\* an alert otherwise.
DeleteSettles(i, o) ==
    /\ i \in 1..Len(deletions)
    /\ deletions[i].pc = "delete"
    /\ history' = IF o = "success"
                  THEN SelectSeq(deletions[i].seen, LAMBDA h : h # deletions[i].item)
                  ELSE history
    /\ deletions' = [deletions EXCEPT ![i].pc = "done", ![i].result = o]
    /\ UNCHANGED histRest

NextHistory ==
    \/ \E n \in 1..MaxRecords : HistoryLoads(n)
    \/ \E item \in 1..MaxRecords, confirmed \in BOOLEAN : HandleDeleteItem(item, confirmed)
    \/ \E i \in 1..MaxDeletions, o \in DeleteOutcomes : DeleteSettles(i, o)

SpecHistory == Init /\ [][NextHistory]_vars

\* ================================================================ claims
Recording == {s \in Sessions : rec[s] = "recording"}

HeldStreams == {s \in Sessions : tracks[s] = "live"}

\* a step in which stopRecording() is called
StopInvoked ==
    \/ HandleClickStop
    \/ \E t \in Sessions : TimerTick(t) /\ seconds'[t] >= AutoStopCeiling

\* the non-empty chunks session s's recorder produced, in order
AllChunks(s) == [k \in 1..produced[s] |-> <<s, k>>]

\* the staged protocol's requests, in order
StagedOrder == <<"get-upload-url", "put-audio", "transcribe">>

\* C1: at every moment at most one recorder is recording and at most one
\* device stream is held: no start, whenever it is requested and whenever its
\* acquisition completes, puts a second session next to an active one.
C1_SingleActiveSession ==
    /\ Cardinality(Recording) <= 1
    /\ Cardinality(HeldStreams) <= 1

\* C2: a recorder stopped by the auto-stop timer is stopped at its 30th tick,
\* not before (its own count of seconds is 30 when a timer stops it) and not
\* after (once its count is 30 it is no longer recording).
C2_AutoStopAtCeiling ==
    \A s \in Sessions :
        /\ (rec[s] = "inactive" /\ stoppedBy[s] = "timer")
              => seconds[s] = AutoStopCeiling
        /\ rec[s] = "recording" => seconds[s] < AutoStopCeiling

\* C3: stopRecording called while the ref holds an inactive recorder stops no
\* recorder, queues no event, hands nothing off and leaves the session stopped.
C3_StopIdempotent ==
    [][ (StopInvoked /\ mediaRecorderRef # NoRef /\ rec[mediaRecorderRef] = "inactive")
          => /\ rec' = rec
             /\ tracks' = tracks
             /\ evq' = evq
             /\ stoppedBy' = stoppedBy
             /\ audioChunksRef' = audioChunksRef
             /\ UNCHANGED taskVars ]_vars

C3_Witness == lastStop = "inactive"

\* C4: once a session was stopped, by a click or by a timer, the tracks of its
\* stream are ended and its interval timer is cleared, whatever becomes of the
\* upload and the transcription that follow.
C4_ReleasedOnStop ==
    \A s \in Sessions :
        stoppedBy[s] # "none"
            => /\ tracks[s] = "ended"
               /\ timerRef # s
               /\ \A i \in 1..Len(timerQueue) : timerQueue[i] # s

C4_Witness ==
    \E s \in Sessions :
        /\ stoppedBy[s] # "none"
        /\ task[s] = "failed"
        /\ tracks[s] = "ended"

\* C5: when getUserMedia rejects, the controller is idle afterwards: the
\* recording flag is false, no recorder is recording, no interval timer is
\* running, and the failed session hands no audio to transcription.
C5_DeniedReturnsToIdle ==
    [][ \A s \in Sessions :
          (acq[s] = "pending" /\ acq'[s] = "denied")
            => /\ isRecording' = FALSE
               /\ \A r \in Sessions : rec'[r] # "recording"
               /\ timerQueue' = <<>>
               /\ handoffs'[s] = 0 ]_vars

\* C6: a stopped recorder never records again, and a recorder starts recording
\* only when it is newly constructed on a newly acquired stream, with the chunk
\* buffer empty.
C6_SessionStateMachine ==
    [][ \A s \in Sessions :
          /\ rec[s] = "inactive" => rec'[s] = "inactive"
          /\ (rec[s] # "recording" /\ rec'[s] = "recording")
                => /\ rec[s] = "none"
                   /\ tracks[s] = "none"
                   /\ tracks'[s] = "live"
                   /\ audioChunksRef' = <<>> ]_vars

\* C7: the audio handed off when a session stops consists of exactly the
\* chunks of that session, in the order they were produced, and the buffer is
\* empty after the hand-off.
C7_BlobIsSessionChunks ==
    [][ \A s \in Sessions :
          handoffs'[s] # handoffs[s]
            => /\ blob'[s] = AllChunks(s)
               /\ audioChunksRef' = <<>> ]_vars

\* C8: when the PUT to the upload location is answered with a non-success
\* status, the call has failed with the storage-write error and has issued no
\* start-job request (and delivers nothing).
C8_StorageWriteFailed ==
    \A s \in Sessions :
        putStatus[s] = "notOk"
            => /\ task[s] = "failed"
               /\ taskErr[s] = "S3 upload failed"
               /\ \A i \in 1..Len(reqLog[s]) : reqLog[s][i] # "transcribe"
               /\ delivered[s] = 0

C8_Witness == \E s \in Sessions : putStatus[s] = "notOk" /\ task[s] = "failed"

\* C9: the requests of a call are a prefix of get-upload-url, PUT, start-job
\* (in that order, each at most once); a step whose fetch fails ends the call
\* without issuing a request or delivering a transcript, and a failed call
\* issues and delivers nothing later.
C9_StagedOrderAndAbort ==
    [][ \A s \in Sessions :
          /\ IsPrefix(reqLog'[s], StagedOrder)
          /\ \A o \in {"rejected", "notOk", "noSuccess"} :
                FetchSettles(s, o)
                  => /\ task'[s] = "failed"
                     /\ reqLog'[s] = reqLog[s]
                     /\ delivered' = delivered
          /\ task[s] = "failed"
                => /\ task'[s] = "failed"
                   /\ reqLog'[s] = reqLog[s]
                   /\ delivered'[s] = 0 ]_vars

C9_Witness ==
    \E s \in Sessions :
        /\ task[s] = "failed"
        /\ taskErr[s] = "Failed to get upload URL"
        /\ reqLog[s] = <<"get-upload-url">>

\* C10: the audio of a session is handed to sendAudioToBackend at most once.
C10_AtMostOneHandoff == \A s \in Sessions : handoffs[s] <= 1

C10_Witness ==
    \E s \in Sessions :
        /\ handoffs[s] = 1
        /\ mediaRecorderRef = s
        /\ lastStop = "inactive"
        /\ evq[s] = <<>>

\* C11: per sendAudioToBackend call onRecordingComplete is called at most once,
\* and only when the call ran to its end on an answer of the transcription
\* request that reported success and carried a transcript text.
C11_DeliveredOnceWithText ==
    \A s \in Sessions :
        /\ delivered[s] <= 1
        /\ delivered[s] = 1 => task[s] = "done" /\ deliveredText[s] = "text"

\* C12: in the direct strategy, when the main request is rejected, is answered
\* with a non-2xx status, or is answered without a transcript, nothing is
\* given to onRecordingComplete, in particular not the canned text.
C12_NoCannedTranscript ==
    \A s \in Sessions :
        putStatus[s] \in AllOutcomes \ {"ok"}
            => delivered[s] = 0 /\ deliveredText[s] # CannedTranscript

\* C15: in the direct strategy every sendAudioToBackend call issues the main
\* request, whatever becomes of its probe.
C15_MainRequestIssued ==
    \A s \in Sessions :
        (task[s] = "probe") ~> (\E i \in 1..Len(reqLog[s]) : reqLog[s][i] = "transcribe")

C14_NoEffectAfterTeardown ==
    [][unmounted => reqLog' = reqLog /\ delivered' = delivered]_vars

\* C16: convertToLatex returns for every input, the empty text and texts
\* without any recognised phrase included; it never throws.
C16_NormalizeTotal == normState \in {"pending", "returned"}

C16_Witness == normState = "returned" /\ text = "" /\ latexText = ""

Opens(s) == CountMatches(s, <<"{">>)
Closes(s) == CountMatches(s, <<"}">>)

\* C17: for every input without braces the text returned has as many '}' as
\* '{': every root group opened is closed, also next to a power, a fraction,
\* integral bounds or a derivative.
C17_RootGroupsClosed ==
    normState = "returned" /\ Opens(text) = 0 /\ Closes(text) = 0
        => Opens(latexText) = Closes(latexText)

\* inputs made of root and fraction phrases only: every '{' of the text
\* returned for them was put there by a root or a fraction
RootFractionInputs ==
    {Join(q) : q \in UNION {[1..k -> {"square root of x", "cube root of y", "1 over 2"}] :
                              k \in 0..MaxPhrases}}

\* C18: for every input made of root and fraction phrases, the number of '{'
\* the roots and fractions introduced equals the number of '}' of the text
\* returned.
C18_BracketBalance ==
    normState = "returned" /\ text \in RootFractionInputs
        => Closes(latexText) = Opens(latexText)

\* C19: a number name alone becomes its digit string, a digit string is
\* returned as it is, and a longer word that holds a number name is returned
\* as it is.
C19_WholeWordNumbers ==
    normState = "returned"
        => /\ \A n \in 1..Len(NumberNames) :
                /\ text = NumberNames[n] => latexText = DigitForms[n]
                /\ text = DigitForms[n] => latexText = text
           /\ text \in LongerWords => latexText = text

C19_Witness == normState = "returned" /\ text = "ten" /\ latexText = "10"

\* C20: the three spoken forms of the relation between two operands a and b
\* all give "a = b": the whole phrase becomes one '=', no word of it is left.
C20_LongerPhraseWins ==
    normState = "returned"
        => \A a \in Operands, b \in Operands, ph \in RelationPhrases :
              text = a \o " " \o ph \o " " \o b => latexText = a \o " = " \o b


\* C21: convertToLatex("square root of 4") returns exactly \sqrt{4}.
C21_RootExample ==
    normState = "returned" /\ text = RootExample => latexText = "\\sqrt{4}"

\* the tokens of toks in their order, nothing or one blank between two
RECURSIVE Spaced(_, _)
Spaced(toks, k) ==
    IF k = Len(toks) THEN {toks[k]}
    ELSE {toks[k] \o sep \o rest : sep \in {"", " "}, rest \in Spaced(toks, k + 1)}

\* C22: convertToLatex("x squared plus 2x plus 1 equals 0") returns
\* x^2+2x+1=0, up to single blanks between its tokens.
C22_QuadraticExample ==
    normState = "returned" /\ text = QuadraticExample
        => latexText \in Spaced(<<"x", "^2", "+", "2x", "+", "1", "=", "0">>, 1)

C22_Witness ==
    normState = "returned" /\ text = QuadraticExample /\ latexText = "x ^2 + 2x + 1 = 0"

\* an operand as the result shows it: a number name as its digits
DigitsOf(A) ==
    IF \E n \in 1..Len(NumberNames) : NumberNames[n] = A
    THEN DigitForms[CHOOSE n \in 1..Len(NumberNames) : NumberNames[n] = A]
    ELSE A

\* C23: for all single-token operands A and B (digit strings, number names,
\* variable names) convertToLatex("A over B") returns \frac{A}{B}, number
\* names as digits.
C23_FractionOfOperands ==
    normState = "returned"
        => \A A \in FractionOperands, B \in FractionOperands :
              text = A \o " over " \o B
                  => latexText = "\\frac{" \o DigitsOf(A) \o "}{" \o DigitsOf(B) \o "}"

\* a text is plain when it is lower-case, trimmed, single-spaced and no
\* pattern of the chain matches in it
Recognised(s) ==
    \/ \E n \in 1..Len(NumberRules) : NextMatch(s, 1, NumberRules[n].pat) # 0
    \/ \E m \in 1..Len(MathRules) : NextMatch(s, 1, MathRules[m].pat) # 0

LowerCased(s) == \A i \in 1..Len(s) : \A u \in 1..Len(Upper) : Char(s, i) # Char(Upper, u)

Trimmed(s) == Len(s) = 0 \/ (Char(s, 1) # " " /\ Char(s, Len(s)) # " ")

SingleSpaced(s) == \A i \in 1..(Len(s) - 1) : ~(Char(s, i) = " " /\ Char(s, i + 1) = " ")

Plain(s) == LowerCased(s) /\ Trimmed(s) /\ SingleSpaced(s) /\ ~Recognised(s)

\* the root openings of s that no closing brace of s can close
OpenRoots(s) ==
    CountMatches(s, <<"\\sqrt{">>) + CountMatches(s, <<"\\sqrt[", "\\d+", "]{">>)
        > CountMatches(s, <<"}">>)

\* C24: a plain text is returned as it is.
C24_PlainTextUnchanged ==
    normState = "returned" /\ Plain(text) => latexText = text

\* C24, amended: a plain text whose root openings do not outnumber its
\* closing braces is returned as it is.
C24_PlainTextWithoutOpenRoots ==
    normState = "returned" /\ Plain(text) /\ ~OpenRoots(text) => latexText = text

C24_Witness ==
    /\ normState = "returned" /\ text = "let f be a map"
    /\ Plain(text) /\ ~OpenRoots(text) /\ latexText = text

\* call i is at an await of convertToLatex
Running(calls, i) == i <= Len(calls) /\ calls[i].pc \in {"fetch", "json"}

\* the kinds of outcome of a conversion that are failures
FailureKinds == {"network", "timeout", "service", "empty", "unknown"}

\* C25: whenever a conversion fails (network failure, timeout, non-success
\* response, empty response), handleGenerateLatex completes without raising,
\* with a message set and isProcessing reset to false.
C25_FailureSurfaced ==
    [][\A i \in 1..MaxConversions :
          Running(convCalls, i) /\ ~Running(convCalls', i)
              => /\ convCalls'[i].pc = "done"
                 /\ ~isProcessing'
                 /\ convCalls'[i].kind \in FailureKinds
                        => Len(error') > Len(Mark) /\ IsPrefix(Mark, error')]_vars

C25_Witness ==
    /\ Len(convCalls) = 1 /\ convCalls[1].pc = "done" /\ convCalls[1].kind = "timeout"
    /\ error = TimeoutMessage /\ ~isProcessing

\* C26: when a conversion fails the LaTeX shown stays what it was before the
\* call, and it is not the phrase normalizer's LaTeX for the transcript.
C26_NoSubstituteAfterFailure ==
    [][\A i \in 1..MaxConversions :
          Running(convCalls, i) /\ ~Running(convCalls', i)
                  /\ convCalls'[i].kind \in FailureKinds
              => /\ latex' = convCalls[i].latexBefore
                 /\ latex' # ConvertToLatex(convCalls[i].arg).value]_vars

C26_Witness ==
    /\ Len(convCalls) = 2 /\ convCalls[2].pc = "done" /\ convCalls[2].kind = "service"
    /\ convCalls[2].latexBefore = "$$x^2$$" /\ latex = "$$x^2$$"
    /\ IsPrefix(ServicePrefix, error)

\* the class of a message shown
ClassOf(message) ==
    IF message = NetworkMessage THEN "network"
    ELSE IF message = TimeoutMessage THEN "timeout"
    ELSE IF IsPrefix(ServicePrefix, message) THEN "service"
    ELSE "unknown"

\* C27: the class of the message shown for a failed conversion is that of
\* the kind of failure: a non-success response is shown with the service
\* message whatever its body holds, never with the network, the timeout or
\* the unknown-error message.
C27_ClassByKindAlone ==
    [][\A i \in 1..MaxConversions :
          Running(convCalls, i) /\ ~Running(convCalls', i)
                  /\ convCalls'[i].kind = "service"
              => ClassOf(error') = "service"]_vars

\* C28: without an API key no request is sent, and a conversion that has
\* completed has not failed and shows the phrase normalizer's LaTeX for the
\* transcript.
C28_NormalizerWithoutKey ==
    ~apiKey
        => /\ requests = 0
           /\ \A i \in 1..Len(convCalls) :
                  convCalls[i].pc = "done"
                      => /\ convCalls[i].kind = "ok"
                         /\ latex = ConvertToLatex(convCalls[i].arg).value

\* C29: when the text of the answer is a body in a fence of three backticks,
\* with or without a tag after the opening fence, the conversion gives the
\* body alone.
C29_FencesStripped ==
    [][\A i \in 1..MaxConversions : \A tag \in Tags, body \in Bodies :
          /\ Running(convCalls, i) /\ ~Running(convCalls', i)
          /\ convCalls[i].resp.ok /\ convCalls[i].resp.json
          /\ convCalls[i].resp.body = Fence \o tag \o "\n" \o body \o "\n" \o Fence
          => latex' = body]_vars

\* the calls whose request has not been answered to the end
Outstanding(calls) == {i \in 1..Len(calls) : calls[i].pc \in {"fetch", "json"}}

\* C30: at most one request to the generative service is outstanding at any
\* time, every call has sent exactly one request, and no call starts while
\* isProcessing is true.
C30_OneOutstandingRequest ==
    [][/\ Cardinality(Outstanding(convCalls')) <= 1
       /\ requests' = Len(convCalls')
       /\ isProcessing => Len(convCalls') = Len(convCalls)]_vars

C30_Witness ==
    /\ Len(convCalls) = 2 /\ convCalls[1].pc = "done" /\ convCalls[2].pc = "fetch"
    /\ isProcessing /\ requests = 2

\* C31: a session whose staged transcribe call has failed has an error state
\* shown to the caller.
C31_FailureToldToCaller ==
    \A s \in Sessions : task[s] = "failed" => error # ""

\* C32: once a session's stream was acquired, if its startRecording threw
\* (no recorder was started) or the component has been removed, every track
\* of the stream is stopped and the session's timer is not running.
C32_ReleasedOnEveryExit ==
    \A s \in Sessions :
        acq[s] = "granted" /\ (rec[s] = "none" \/ unmounted)
            => /\ tracks[s] = "ended"
               /\ \A i \in 1..Len(timerQueue) : timerQueue[i] # s

\* the '}' that bracket repair owes to the text s: the roots opened less the
\* braces closed, none when as many are closed
Deficit(s) ==
    The({ IF oc[1] > oc[2] THEN oc[1] - oc[2] ELSE 0
          : oc \in {<<CountMatches(s, <<"\\sqrt{">>)
                         + CountMatches(s, <<"\\sqrt[", "\\d+", "]{">>),
                      CountMatches(s, <<"}">>)>>} })

\* C33: the text returned is the text after whitespace collapsing followed by
\* max(0, o - c) characters '}' and nothing else, o the roots opened and c the
\* '}' in the text after whitespace collapsing.
C33_RepairAppendsDeficit ==
    normState = "returned"
        => \A cleaned \in {CleanedText(text)} :
               /\ Len(latexText) = Len(cleaned) + Deficit(cleaned)
               /\ SubSeq(latexText, 1, Len(cleaned)) = cleaned
               /\ \A i \in (Len(cleaned) + 1)..Len(latexText) :
                      Char(latexText, i) = "}"

C33_Witness ==
    /\ normState = "returned"
    /\ text = "\\sqrt{a} \\sqrt{b \\sqrt{c"
    /\ latexText = "\\sqrt{a} \\sqrt{b \\sqrt{c}}"

\* C34: whenever isRecording is false no recorder is recording and no timer
\* is running; and when no recorder is recording and no device acquisition is
\* pending, as after a manual stop or an auto-stop, isRecording is false.
C34_FlagAgreesWithRecorder ==
    /\ ~isRecording => Recording = {} /\ timerQueue = <<>>
    /\ (\A s \in Sessions : rec[s] # "recording" /\ acq[s] # "pending")
           => ~isRecording

\* C35: at most one interval timer exists, the session of an existing timer
\* is recording, and a tick of session t's timer that stops a recorder stops
\* the recorder of session t.
C35_OneTimerOfItsSession ==
    [][/\ Len(timerQueue') <= 1
       /\ \A i \in 1..Len(timerQueue') : rec'[timerQueue'[i]] = "recording"
       /\ \A t \in Sessions : \A s \in Sessions :
              TimerTick(t) /\ rec[s] = "recording" /\ rec'[s] # "recording"
                  => s = t]_vars

\* C36: the transcript shown changes only to the transcript of a later
\* session: a result of an older session never replaces the result of a newer
\* one.
C36_LateResultNeverOverwrites ==
    [][transcript' # transcript => transcript' > transcript]_vars

\* C37: the timers fire in the order in which they were set and the message
\* shown is that of the latest failure, whose timer was set last: a timer that
\* clears a message shown is the only one pending, the message's own.
C37_ErrorClearedByOwnTimer ==
    [][errorTimers' < errorTimers /\ error # "" => errorTimers = 1]_vars

\* C38: a conversion that ends without a failure does not give the empty
\* string as its LaTeX.
C38_SuccessNeverEmpty ==
    [][\A i \in 1..MaxConversions :
          /\ Running(convCalls, i) /\ ~Running(convCalls', i)
          /\ convCalls'[i].kind = "ok"
          => latex' # ""]_vars

\* the records listed
Listed(h) == {h[k] : k \in 1..Len(h)}

\* C39: a record whose deletion succeeded is not in the list shown, and the
\* step in which a deletion fails leaves the list as it was.
C39_DeletedStaysDeleted ==
    [][/\ \A i \in 1..Len(deletions') :
              deletions'[i].result = "success"
                  => deletions'[i].item \notin Listed(history')
       /\ \A i \in 1..Len(deletions) :
              /\ deletions[i].pc = "delete"
              /\ deletions'[i].result \in {"failure", "rejected"}
              => history' = history]_vars
====
